---- MODULE Spec2Model ----
(***************************************************************************)
(* Model of MatchParser (src/src/parsers/match_parser.py): the match log   *)
(* interpreter of MTG-Arena-Analyser.  A log is a sequence of lines; a     *)
(* line is the record of what the parser's substring tests, regular        *)
(* expressions and json.loads can see in it.  parse() is a state machine:  *)
(* seat resolution, opponent name, one step per line of the main scan,     *)
(* and the final count.                                                    *)
(***************************************************************************)
EXTENDS Integers, Sequences, FiniteSets, TLC

VARIABLES
    log,                 \* the log file: a sequence of lines
    log_exists,          \* whether open(log_path) succeeds
    card_db,             \* the catalog: sequence of [key, name], in dict order
    split_card_grp_map,  \* self.split_card_grp_map
    pc,                  \* "seat", "name", "scan", "count", "done", "crashed"
    idx,                 \* position of the main scan's for loop
    in_match,            \* local in_match of parse
    player_seat_id, opponent_seat_id, opponent_name,
    instance_locations, instance_id_map, instance_to_grp,
    final_player_hand, final_opponent_hand,
    player_deck, opponent_deck_size,
    player_commander, opponent_commander,
    player_cards, opponent_cards,   \* the pair parse returns
    run,                 \* number of the parse invocation under way
    first_result         \* what the caller kept of the first invocation

vars == << log, log_exists, card_db, split_card_grp_map, pc, idx, in_match,
           player_seat_id, opponent_seat_id, opponent_name,
           instance_locations, instance_id_map, instance_to_grp,
           final_player_hand, final_opponent_hand,
           player_deck, opponent_deck_size,
           player_commander, opponent_commander,
           player_cards, opponent_cards, run, first_result >>

---------------------------------------------------------------------------
(* Bounds of the model *)

MaxLines == 3
MaxInst == 3

---------------------------------------------------------------------------
(* Python values *)

\* Python's None, for an Optional[int] field or a key missing from a JSON object
None == 0

\* Optional[str] None
NoName == "<None>"

\* an empty dict
EmptyDict == [x \in {} |-> 0]

\* d[k] = v
Put(d, k, v) == [x \in DOMAIN d \cup {k} |-> IF x = k THEN v ELSE d[x]]

\* d.get(k, default)
Get(d, k, default) == IF k \in DOMAIN d THEN d[k] ELSE default

\* the values of a dict or the items of a list
Range(f) == {f[x] : x \in DOMAIN f}

Min(S) == CHOOSE x \in S : \A y \in S : x <= y

\* str(n) of a non-negative int: its decimal digits
RECURSIVE Str(_)
Str(n) == IF n < 10 THEN <<n>> ELSE Str(n \div 10) \o <<n % 10>>

\* int(s) of a string of decimal digits
RECURSIVE IntOf(_)
IntOf(s) == IF Len(s) = 0 THEN 0
          ELSE 10 * IntOf(SubSeq(s, 1, Len(s) - 1)) + s[Len(s)]

\* whether text t starts with text s (a regular expression ending in a number
\* matches every longer number that starts with it)
IsPrefix(s, t) == Len(s) <= Len(t) /\ SubSeq(t, 1, Len(s)) = s

---------------------------------------------------------------------------
(* The catalog and the split card map *)

\* a card name is a sequence of words; the separators " // " and " /// " are
\* the words "//" and "///"
Sep2 == "//"
Sep3 == "///"

\* str(grp_id) not in self.card_db, negated
InCatalog(db, grp_id) == \E k \in DOMAIN db : db[k].key = Str(grp_id)

\* ' // ' in name or ' /// ' in name
IsFullName(name) == \E i \in DOMAIN name : name[i] \in {Sep2, Sep3}

\* the separator lines 111-115 choose for a full name
SeparatorOf(full_name) ==
    IF \E i \in DOMAIN full_name : full_name[i] = Sep2 THEN Sep2 ELSE Sep3

\* [p.strip() for p in full_name.split(separator)], as a set
PartsOf(full_name) ==
    LET sep == SeparatorOf(full_name)
        n == Len(full_name)
    IN  { SubSeq(full_name, a, b) : <<a, b>> \in
            { ab \in (1..(n + 1)) \X (0..n) :
                /\ ab[2] >= ab[1] - 1
                /\ (ab[1] = 1 \/ full_name[ab[1] - 1] = sep)
                /\ (ab[2] = n \/ full_name[ab[2] + 1] = sep)
                /\ \A i \in ab[1]..ab[2] : full_name[i] # sep } }

\* positions of the catalog at which a full name occurs for the first time:
\* the keys of full_cards, in insertion order
FullCardFirsts(db) ==
    { k \in DOMAIN db : /\ IsFullName(db[k].name)
                        /\ \A j \in 1..(k - 1) : db[j].name # db[k].name }

\* full_cards[name]
CanonicalOf(db, name) ==
    IntOf(db[Min({k \in DOMAIN db : db[k].name = name})].key)

\* second pass: the full cards (by position) of which name is a half
HalfOf(db, name) == { k \in FullCardFirsts(db) : name \in PartsOf(db[k].name) }

\* a mutant of the second pass: only the first face of a full name is matched
SplitTargetFirstFaceOnly(db, k) ==
    LET name == db[k].name
        hs == { f \in FullCardFirsts(db) :
                  LET fn == db[f].name
                      cut == Min({i \in DOMAIN fn : fn[i] = SeparatorOf(fn)})
                  IN  name = SubSeq(fn, 1, cut - 1) }
    IN  IF hs # {} THEN IntOf(db[Min(hs)].key)
        ELSE IF IsFullName(name) /\ CanonicalOf(db, name) # IntOf(db[k].key)
             THEN CanonicalOf(db, name)
             ELSE None

\* grp_map[int(key)] after both passes for catalog entry k, None if unset
SplitTarget(db, k) ==
    LET name == db[k].name
        hs == HalfOf(db, name)
    IN  IF hs # {} THEN IntOf(db[Min(hs)].key)
        ELSE IF IsFullName(name) /\ CanonicalOf(db, name) # IntOf(db[k].key)
             THEN CanonicalOf(db, name)
             ELSE None

\* MatchParser._build_split_card_map
BuildSplitCardMap(db) ==
    LET ks == { k \in DOMAIN db : SplitTarget(db, k) # None }
    IN  [ g \in { IntOf(db[k].key) : k \in ks } |->
            SplitTarget(db, CHOOSE k \in ks : IntOf(db[k].key) = g) ]

\* self.split_card_grp_map.get(grp_id, grp_id)
Normalize(map, grp_id) == Get(map, grp_id, grp_id)

---------------------------------------------------------------------------
(* Log lines *)

\* A line, as the parser can see it:
\*   hasTarget       self.match_id in line
\*   hasMatchIdWord  'matchId' in line
\*   hasOtherId      the line contains the identifier of another match
\*   json            what json.loads(line) gives: "obj" a JSON object, "list" a
\*                   JSON array holding that object, "bad" a JSONDecodeError
\*   msgs            greToClientEvent.greToClientMessages, each [systemSeatIds]
\*   hasReserved     '"reservedPlayers"' in line
\*   reserved        ...gameRoomConfig.reservedPlayers, each
\*                   [systemSeatId, playerName] (None / NoName: key missing)
\*   objs            the members of the gameObjects arrays, each
\*                   [instanceId, grpId, zoneId, ownerSeatId, visibility]
\*   idChanges       the (orig_id, new_id) pairs of ObjectIdChanged annotations
\*   hasDeck         '"deckMessage"' in line and '"deckCards"' in line
\*   deckCards       the deckCards list
\*   zones           the zone objects, in line order, each
\*                   [zoneId, type, ownerSeatId, objectInstanceIds]
BlankLine ==
    [ hasTarget |-> TRUE, hasMatchIdWord |-> FALSE, hasOtherId |-> FALSE,
      json |-> "obj",
      msgs |-> <<>>, hasReserved |-> FALSE, reserved |-> <<>>,
      objs |-> <<>>, idChanges |-> <<>>,
      hasDeck |-> FALSE, deckCards |-> <<>>, zones |-> <<>> ]

Public == "Visibility_Public"
Private == "Visibility_Private"
Hand == "ZoneType_Hand"
Library == "ZoneType_Library"
Command == "ZoneType_Command"

GameObject(i, g, z, o, v) ==
    [ instanceId |-> i, grpId |-> g, zoneId |-> z, ownerSeatId |-> o,
      visibility |-> v ]

Zone(z, t, o, ids) ==
    [ zoneId |-> z, type |-> t, ownerSeatId |-> o, objectInstanceIds |-> ids ]

\* json.loads(line) succeeds
JsonLoads(line) == line.json # "bad"

---------------------------------------------------------------------------
(* Seat resolution and opponent name: lines 126-212 *)

Found(v) == [ kind |-> "found", value |-> v ]
NotFound == [ kind |-> "none", value |-> None ]
\* an exception the function does not catch (AttributeError of data.get on a list)
Raised == [ kind |-> "raised", value |-> None ]

\* MatchParser._detect_seat_from_connect_resp, from line k of the file on
RECURSIVE ConnectRespFrom(_, _)
ConnectRespFrom(lg, k) ==
    IF k > Len(lg) THEN NotFound
    ELSE LET line == lg[k]
             singles == { m \in DOMAIN line.msgs :
                            Len(line.msgs[m].systemSeatIds) = 1 }
         IN  IF ~line.hasTarget \/ line.msgs = <<>> THEN ConnectRespFrom(lg, k + 1)
             ELSE IF line.json = "bad" THEN ConnectRespFrom(lg, k + 1)
             ELSE IF line.json = "list" THEN Raised
             ELSE IF singles # {}
                  THEN Found(line.msgs[Min(singles)].systemSeatIds[1])
                  ELSE ConnectRespFrom(lg, k + 1)

\* MatchParser._detect_seat_from_reserved_players, from line k of the file on
RECURSIVE ReservedPlayersFrom(_, _)
ReservedPlayersFrom(lg, k) ==
    IF k > Len(lg) THEN NotFound
    ELSE LET line == lg[k]
         IN  IF ~line.hasTarget \/ ~line.hasReserved
             THEN ReservedPlayersFrom(lg, k + 1)
             ELSE IF line.json = "bad" THEN ReservedPlayersFrom(lg, k + 1)
             ELSE IF line.json = "list" THEN Raised
             ELSE IF line.reserved # <<>>
                  THEN Found(line.reserved[1].systemSeatId)
                  ELSE ReservedPlayersFrom(lg, k + 1)

\* a mutant of the strategy order: the reserved players are asked first
ResolveSeatReservedFirst(lg) ==
    LET r == ReservedPlayersFrom(lg, 1)
        c == ConnectRespFrom(lg, 1)
    IN  IF r.kind = "raised" THEN Raised
        ELSE IF r.value # None THEN Found(r.value)
        ELSE IF c.kind = "raised" THEN Raised
        ELSE IF c.value # None THEN Found(c.value)
        ELSE Found(1)

\* lines 128-135: the seat _detect_player_seat settles on
ResolveSeat(lg) ==
    LET c == ConnectRespFrom(lg, 1)
        r == ReservedPlayersFrom(lg, 1)
    IN  IF c.kind = "raised" THEN Raised
        ELSE IF c.value # None THEN Found(c.value)
        ELSE IF r.kind = "raised" THEN Raised
        ELSE IF r.value # None THEN Found(r.value)
        ELSE Found(1)

\* line 138
OtherSeat(seat) == IF seat = 1 THEN 2 ELSE 1

\* a mutant of line 208: the first entry is taken, whatever its seat
RECURSIVE OpponentNameFromFirstEntry(_, _, _)
OpponentNameFromFirstEntry(lg, k, opp) ==
    IF k > Len(lg) THEN NotFound
    ELSE LET line == lg[k]
         IN  IF ~line.hasTarget \/ ~line.hasReserved
             THEN OpponentNameFromFirstEntry(lg, k + 1, opp)
             ELSE IF line.json = "bad"
                  THEN OpponentNameFromFirstEntry(lg, k + 1, opp)
             ELSE IF line.json = "list" THEN Raised
             ELSE IF line.reserved # << >>
                  THEN Found(IF line.reserved[1].playerName = NoName
                             THEN "Unknown"
                             ELSE line.reserved[1].playerName)
                  ELSE OpponentNameFromFirstEntry(lg, k + 1, opp)

\* MatchParser._extract_opponent_name, from line k of the file on
RECURSIVE OpponentNameFrom(_, _, _)
OpponentNameFrom(lg, k, opp) ==
    IF k > Len(lg) THEN NotFound
    ELSE LET line == lg[k]
             hits == { e \in DOMAIN line.reserved :
                         line.reserved[e].systemSeatId = opp }
         IN  IF ~line.hasTarget \/ ~line.hasReserved
             THEN OpponentNameFrom(lg, k + 1, opp)
             ELSE IF line.json = "bad" THEN OpponentNameFrom(lg, k + 1, opp)
             ELSE IF line.json = "list" THEN Raised
             ELSE IF hits # {}
                  THEN Found(IF line.reserved[Min(hits)].playerName = NoName
                             THEN "Unknown"
                             ELSE line.reserved[Min(hits)].playerName)
                  ELSE OpponentNameFrom(lg, k + 1, opp)

---------------------------------------------------------------------------
(* The extractors of the main scan: lines 214-395 *)

\* MatchParser._build_instance_mappings over the objects k.. of a line: the
\* regular expression of line 219 finds each object that has both ids
RECURSIVE BuildInstanceMappingsFrom(_, _, _, _, _)
BuildInstanceMappingsFrom(itg, db, map, objs, k) ==
    IF k > Len(objs) THEN itg
    ELSE LET o == objs[k]
         IN  IF o.instanceId = None \/ o.grpId = None \/ ~InCatalog(db, o.grpId)
             THEN BuildInstanceMappingsFrom(itg, db, map, objs, k + 1)
             ELSE BuildInstanceMappingsFrom(
                      Put(itg, o.instanceId, Normalize(map, o.grpId)),
                      db, map, objs, k + 1)

BuildInstanceMappings(itg, db, map, line) ==
    BuildInstanceMappingsFrom(itg, db, map, line.objs, 1)

\* MatchParser._process_instance_id_changes over the pairs k.. of a line;
\* st is [map |-> instance_id_map, itg |-> instance_to_grp]
RECURSIVE ProcessInstanceIdChangesFrom(_, _, _)
ProcessInstanceIdChangesFrom(st, changes, k) ==
    IF k > Len(changes) THEN st
    ELSE LET old_id == changes[k][1]
             new_id == changes[k][2]
         IN  ProcessInstanceIdChangesFrom(
                 [ map |-> Put(st.map, old_id, new_id),
                   itg |-> IF old_id \in DOMAIN st.itg
                           THEN Put(st.itg, new_id, st.itg[old_id])
                           ELSE st.itg ],
                 changes, k + 1)

ProcessInstanceIdChanges(id_map, itg, line) ==
    ProcessInstanceIdChangesFrom([map |-> id_map, itg |-> itg], line.idChanges, 1)

\* a mutant of line 267: the card is noted, its copies are not counted
RECURSIVE AddDeckCardsOnce(_, _, _)
AddDeckCardsOnce(deck, cards, k) ==
    IF k > Len(cards) THEN deck
    ELSE AddDeckCardsOnce(Put(deck, cards[k], 1), cards, k + 1)

\* lines 266-267: self.player_deck[grp_id] += 1 for the cards k.. of the list
RECURSIVE AddDeckCards(_, _, _)
AddDeckCards(deck, cards, k) ==
    IF k > Len(cards) THEN deck
    ELSE AddDeckCards(Put(deck, cards[k], Get(deck, cards[k], 0) + 1), cards, k + 1)

\* MatchParser._extract_player_deck
ExtractPlayerDeck(deck, line) ==
    IF ~line.hasDeck THEN deck ELSE AddDeckCards(deck, line.deckCards, 1)

\* line 277: re.search(rf'"ownerSeatId"\s*:\s*{self.opponent_seat_id}', line):
\* some owner written in the line starts with the opponent's seat number
OwnerSeatIdMatches(line, opp) ==
    \/ \E z \in DOMAIN line.zones :
          /\ line.zones[z].ownerSeatId # None
          /\ IsPrefix(Str(opp), Str(line.zones[z].ownerSeatId))
    \/ \E o \in DOMAIN line.objs :
          /\ line.objs[o].ownerSeatId # None
          /\ IsPrefix(Str(opp), Str(line.objs[o].ownerSeatId))

\* line 278: the first "objectInstanceIds" list of the line that is not empty
FirstInstanceIdList(line) ==
    LET full == { z \in DOMAIN line.zones : line.zones[z].objectInstanceIds # <<>> }
    IN  IF full = {} THEN <<>> ELSE line.zones[Min(full)].objectInstanceIds

\* MatchParser._extract_opponent_deck_size
ExtractOpponentDeckSize(size, opp, line) ==
    IF \A z \in DOMAIN line.zones : line.zones[z].type # Library THEN size
    ELSE IF ~OwnerSeatIdMatches(line, opp) THEN size
    ELSE IF FirstInstanceIdList(line) = <<>> THEN size
    ELSE IF Len(FirstInstanceIdList(line)) > size
         THEN Len(FirstInstanceIdList(line))
         ELSE size

\* a mutant of lines 316, 318, 381 and 383: a commander is written whenever
\* one is found
CommanderUnsetAlways(commander) == TRUE

\* lines 316, 318, 381 and 383: not self.player_commander
CommanderUnset(commander) == commander = None

\* lines 313-319 for the instance ids k.. of one command zone;
\* cmd is [player |-> player_commander, opponent |-> opponent_commander]
RECURSIVE CommandersOfZone(_, _, _, _, _, _, _)
CommandersOfZone(cmd, itg, owner, ids, k, player, opp) ==
    IF k > Len(ids) THEN cmd
    ELSE LET grp_id == Get(itg, ids[k], None)
             next == IF ids[k] \notin DOMAIN itg THEN cmd
                     ELSE IF owner = player /\ CommanderUnset(cmd.player)
                          THEN [cmd EXCEPT !.player = grp_id]
                     ELSE IF owner = opp /\ CommanderUnset(cmd.opponent)
                          THEN [cmd EXCEPT !.opponent = grp_id]
                     ELSE cmd
         IN  CommandersOfZone(next, itg, owner, ids, k + 1, player, opp)

\* lines 305-319 for the zones k.. of a line
RECURSIVE ExtractCommandersFrom(_, _, _, _, _, _)
ExtractCommandersFrom(cmd, itg, zones, k, player, opp) ==
    IF k > Len(zones) THEN cmd
    ELSE IF zones[k].type # Command
         THEN ExtractCommandersFrom(cmd, itg, zones, k + 1, player, opp)
         ELSE ExtractCommandersFrom(
                  CommandersOfZone(cmd, itg, zones[k].ownerSeatId,
                                   zones[k].objectInstanceIds, 1, player, opp),
                  itg, zones, k + 1, player, opp)

\* MatchParser._extract_commanders
ExtractCommanders(cmd, itg, line, player, opp) ==
    IF \A z \in DOMAIN line.zones : line.zones[z].type # Command THEN cmd
    ELSE IF ~JsonLoads(line) THEN cmd
    ELSE ExtractCommandersFrom(cmd, itg, line.zones, 1, player, opp)

\* MatchParser._extract_hand_zones for the zones k.. of a line; the pattern of
\* line 328 needs a zone id, an owner and a list that is not empty;
\* hands is [player |-> final_player_hand, opponent |-> final_opponent_hand]
RECURSIVE ExtractHandZonesFrom(_, _, _, _, _)
ExtractHandZonesFrom(hands, zones, k, player, opp) ==
    IF k > Len(zones) THEN hands
    ELSE LET z == zones[k]
             matches == /\ z.type = Hand
                        /\ z.zoneId # None
                        /\ z.ownerSeatId # None
                        /\ z.objectInstanceIds # <<>>
             next == IF ~matches THEN hands
                     ELSE IF z.ownerSeatId = player
                          THEN [hands EXCEPT !.player = z.objectInstanceIds]
                     ELSE IF z.ownerSeatId = opp
                          THEN [hands EXCEPT !.opponent = z.objectInstanceIds]
                     ELSE hands
         IN  ExtractHandZonesFrom(next, zones, k + 1, player, opp)

ExtractHandZones(hands, line, player, opp) ==
    ExtractHandZonesFrom(hands, line.zones, 1, player, opp)

\* line 380
CommandZones == {32, 34}

\* a mutant of line 387: every object is tracked, whoever owns it
IsTrackedAlways(o, player) == TRUE

\* line 387: only track visible cards
IsTracked(o, player) == o.visibility = Public \/ o.ownerSeatId = player

\* a mutant of lines 372-373: the catalog is not consulted
IsKnownCardAlways(db, grp_id) == TRUE

\* lines 372-373
IsKnownCard(db, grp_id) == InCatalog(db, grp_id)

\* a mutant of lines 388-393: a record is written for a new instance only
UpsertIfAbsent(locs, instance_id, record) ==
    IF instance_id \in DOMAIN locs THEN locs ELSE Put(locs, instance_id, record)

\* lines 388-393: self.instance_locations[instance_id] = {...}
Upsert(locs, instance_id, record) == Put(locs, instance_id, record)

\* lines 360-393 for the objects k.. of a line;
\* st is [locs |-> instance_locations, cmd |-> the commanders]
RECURSIVE TrackInstanceLocationsFrom(_, _, _, _, _, _, _)
TrackInstanceLocationsFrom(st, db, map, objs, k, player, opp) ==
    IF k > Len(objs) THEN st
    ELSE LET o == objs[k]
             normalized_grp_id == Normalize(map, o.grpId)
             cmd == IF o.zoneId \notin CommandZones THEN st.cmd
                    ELSE IF o.ownerSeatId = player /\ CommanderUnset(st.cmd.player)
                         THEN [st.cmd EXCEPT !.player = normalized_grp_id]
                    ELSE IF o.ownerSeatId = opp /\ CommanderUnset(st.cmd.opponent)
                         THEN [st.cmd EXCEPT !.opponent = normalized_grp_id]
                    ELSE st.cmd
             locs == IF IsTracked(o, player)
                     THEN Upsert(st.locs, o.instanceId,
                                 [ grpId |-> normalized_grp_id, zone |-> o.zoneId,
                                   owner |-> o.ownerSeatId,
                                   visibility |-> o.visibility ])
                     ELSE st.locs
         IN  IF o.instanceId = None \/ o.grpId = None \/ ~IsKnownCard(db, o.grpId)
             THEN TrackInstanceLocationsFrom(st, db, map, objs, k + 1, player, opp)
             ELSE TrackInstanceLocationsFrom([locs |-> locs, cmd |-> cmd],
                                             db, map, objs, k + 1, player, opp)

\* MatchParser._track_instance_locations
TrackInstanceLocations(locs, cmd, db, map, line, player, opp) ==
    IF line.objs = <<>> \/ ~JsonLoads(line) THEN [locs |-> locs, cmd |-> cmd]
    ELSE TrackInstanceLocationsFrom([locs |-> locs, cmd |-> cmd],
                                    db, map, line.objs, 1, player, opp)

---------------------------------------------------------------------------
(* The final count: lines 397-471 *)

\* line 409
RelevantZones == {28, 29, 31, 33, 35, 37}

\* a mutant of line 409: the library (zone 30) is counted too
IsRelevantZoneWithLibrary(zone) == zone \in RelevantZones \cup {30}

\* line 439, negated
IsRelevantZone(zone) == zone \in RelevantZones

\* a mutant of line 413: no instance is obsolete
ObsoleteInstancesNone(id_map) == {}

\* line 413
ObsoleteInstances(id_map) == DOMAIN id_map

\* a mutant of lines 416-425: only the hands make an instance valid
ValidInstancesHandsOnly(id_map, player_hand, opponent_hand) ==
    Range(player_hand) \cup Range(opponent_hand)

\* lines 416-427
ValidInstances(id_map, player_hand, opponent_hand) ==
    Range(id_map) \cup Range(player_hand) \cup Range(opponent_hand)

\* lines 429-444: the keys of instance_final_location
FinalInstances(locs, id_map, player_hand, opponent_hand) ==
    { i \in DOMAIN locs :
        /\ i \notin ObsoleteInstances(id_map)
        /\ i \in ValidInstances(id_map, player_hand, opponent_hand)
        /\ IsRelevantZone(locs[i].zone) }

\* lines 447-456: the keys of zone_cards
ZoneKeys(locs, final) ==
    { << locs[i].grpId, locs[i].owner, locs[i].zone >> : i \in final }

\* zone_cards[zone_key]
ZoneCards(locs, final, zone_key) ==
    { i \in final : << locs[i].grpId, locs[i].owner, locs[i].zone >> = zone_key }

\* a mutant of line 460: a zone key counts as one copy, however many
\* instances it holds
SumCopiesOnePerKey(locs, final, keys) == Cardinality(keys)

\* lines 459-469: the sum of len(instance_set) over a set of zone keys
RECURSIVE SumCopies(_, _, _)
SumCopies(locs, final, keys) ==
    IF keys = {} THEN 0
    ELSE LET key == CHOOSE x \in keys : TRUE
         IN  Cardinality(ZoneCards(locs, final, key))
               + SumCopies(locs, final, keys \ {key})

\* a mutant of lines 466-469: the other seat's cards are looked up in the
\* defaultdict of this seat too, which leaves them there with 0 copies
CountForBothSeats(locs, final, map, seat) ==
    LET keys == { key \in ZoneKeys(locs, final) : key[1] \notin DOMAIN map }
    IN  [ grp_id \in { key[1] : key \in keys } |->
            SumCopies(locs, final,
                      { key \in keys : key[1] = grp_id /\ key[2] = seat }) ]

\* lines 459-469: the dict that collects the copies of one seat
CountFor(locs, final, map, seat) ==
    LET keys == { key \in ZoneKeys(locs, final) :
                    key[1] \notin DOMAIN map /\ key[2] = seat }
    IN  [ grp_id \in { key[1] : key \in keys } |->
            SumCopies(locs, final, { key \in keys : key[1] = grp_id }) ]

---------------------------------------------------------------------------
(* The parser as a state machine *)

\* MatchParser.__init__, lines 23-36
Fresh ==
    [ player_seat_id |-> None, opponent_seat_id |-> None,
      opponent_name |-> NoName,
      instance_locations |-> EmptyDict, instance_id_map |-> EmptyDict,
      instance_to_grp |-> EmptyDict,
      final_player_hand |-> <<>>, final_opponent_hand |-> <<>>,
      player_deck |-> EmptyDict, opponent_deck_size |-> 0,
      player_commander |-> None, opponent_commander |-> None ]

\* what parse returns and what app.py reads from the parser afterwards
Outputs ==
    [ player_cards |-> player_cards, opponent_cards |-> opponent_cards,
      player_deck |-> player_deck, opponent_deck_size |-> opponent_deck_size,
      player_commander |-> player_commander,
      opponent_commander |-> opponent_commander,
      opponent_name |-> opponent_name ]

\* a parser constructed on a log file and a catalog, parse() just called
InitWith(Logs, Catalogs) ==
    /\ card_db \in Catalogs
    /\ \/ log_exists = TRUE /\ log \in Logs
       \/ log_exists = FALSE /\ log = <<>>
    /\ split_card_grp_map = BuildSplitCardMap(card_db)
    /\ pc = "seat" /\ idx = 0 /\ in_match = FALSE
    /\ player_seat_id = Fresh.player_seat_id
    /\ opponent_seat_id = Fresh.opponent_seat_id
    /\ opponent_name = Fresh.opponent_name
    /\ instance_locations = Fresh.instance_locations
    /\ instance_id_map = Fresh.instance_id_map
    /\ instance_to_grp = Fresh.instance_to_grp
    /\ final_player_hand = Fresh.final_player_hand
    /\ final_opponent_hand = Fresh.final_opponent_hand
    /\ player_deck = Fresh.player_deck
    /\ opponent_deck_size = Fresh.opponent_deck_size
    /\ player_commander = Fresh.player_commander
    /\ opponent_commander = Fresh.opponent_commander
    /\ player_cards = EmptyDict /\ opponent_cards = EmptyDict
    /\ run = "first" /\ first_result = <<>>

\* the logs of at most MaxLines lines over a set of lines
LogsOver(Lines) == UNION { [1..n -> Lines] : n \in 0..MaxLines }

inputs == << log, log_exists, card_db, split_card_grp_map >>
tables == << instance_locations, instance_id_map, instance_to_grp,
             final_player_hand, final_opponent_hand, player_deck,
             opponent_deck_size, player_commander, opponent_commander >>
caller == << run, first_result >>

\* a mutant of line 142: a file that cannot be opened is read as an empty one
OpenFailsNever(exists) == FALSE

\* line 142: open(self.log_path) raises FileNotFoundError
OpenFails(exists) == ~exists

\* a mutant of lines 56-60: every line counts as a line of the match
InMatchAlways(was_in_match, line) == TRUE

\* lines 56-59: in_match after the test of line 56
InMatch(was_in_match, line) == was_in_match \/ line.hasTarget

\* a mutant of lines 63-64: the scan never stops at another match
DifferentMatchStartedNever(line) == FALSE

\* line 63: 'matchId' in line and self.match_id not in line
DifferentMatchStarted(line) == line.hasMatchIdWord /\ ~line.hasTarget

\* a mutant of line 46: the seats are not resolved before the scan
DetectPlayerSeatDeferred ==
    /\ pc = "seat"
    /\ IF OpenFails(log_exists)
       THEN pc' = "crashed"
       ELSE pc' = "name"
    /\ UNCHANGED << inputs, tables, caller, idx, in_match, opponent_name,
                    player_seat_id, opponent_seat_id,
                    player_cards, opponent_cards >>

\* MatchParser._detect_player_seat (line 46); the first open of the file is
\* line 142
DetectPlayerSeat ==
    /\ pc = "seat"
    /\ IF OpenFails(log_exists) \/ ResolveSeat(log).kind = "raised"
       THEN /\ pc' = "crashed"
            /\ UNCHANGED << player_seat_id, opponent_seat_id >>
       ELSE /\ pc' = "name"
            /\ player_seat_id' = ResolveSeat(log).value
            /\ opponent_seat_id' = OtherSeat(ResolveSeat(log).value)
    /\ UNCHANGED << inputs, tables, caller, idx, in_match, opponent_name,
                    player_cards, opponent_cards >>

\* MatchParser._extract_opponent_name (line 49), then lines 52-53
ExtractOpponentName ==
    /\ pc = "name"
    /\ LET n == OpponentNameFrom(log, 1, opponent_seat_id)
       IN  IF n.kind = "raised"
           THEN pc' = "crashed" /\ UNCHANGED << opponent_name, idx, in_match >>
           ELSE /\ pc' = "scan"
                /\ opponent_name' = IF n.kind = "found" THEN n.value
                                    ELSE opponent_name
                /\ idx' = 1
                /\ in_match' = FALSE
    /\ UNCHANGED << inputs, tables, caller, player_seat_id, opponent_seat_id,
                    player_cards, opponent_cards >>

\* one iteration of the loop of lines 55-73, or its end
ScanLine ==
    /\ pc = "scan"
    /\ IF idx > Len(log)
       THEN pc' = "count" /\ UNCHANGED << tables, idx, in_match >>
       ELSE LET line == log[idx]
                itg1 == BuildInstanceMappings(instance_to_grp, card_db,
                                              split_card_grp_map, line)
                ch == ProcessInstanceIdChanges(instance_id_map, itg1, line)
                cmd1 == ExtractCommanders(
                            [ player |-> player_commander,
                              opponent |-> opponent_commander ],
                            ch.itg, line, player_seat_id, opponent_seat_id)
                hands == ExtractHandZones(
                            [ player |-> final_player_hand,
                              opponent |-> final_opponent_hand ],
                            line, player_seat_id, opponent_seat_id)
                tr == TrackInstanceLocations(instance_locations, cmd1, card_db,
                                             split_card_grp_map, line,
                                             player_seat_id, opponent_seat_id)
            IN  IF ~InMatch(in_match, line)
                THEN \* line 60: continue
                     /\ pc' = pc /\ idx' = idx + 1
                     /\ UNCHANGED << tables, in_match >>
                ELSE IF DifferentMatchStarted(line)
                THEN \* line 64: break
                     /\ pc' = "count" /\ in_match' = TRUE
                     /\ UNCHANGED << tables, idx >>
                ELSE \* lines 67-73
                     /\ pc' = pc /\ idx' = idx + 1 /\ in_match' = TRUE
                     /\ instance_to_grp' = ch.itg
                     /\ instance_id_map' = ch.map
                     /\ player_deck' = ExtractPlayerDeck(player_deck, line)
                     /\ opponent_deck_size' =
                            ExtractOpponentDeckSize(opponent_deck_size,
                                                    opponent_seat_id, line)
                     /\ final_player_hand' = hands.player
                     /\ final_opponent_hand' = hands.opponent
                     /\ instance_locations' = tr.locs
                     /\ player_commander' = tr.cmd.player
                     /\ opponent_commander' = tr.cmd.opponent
    /\ UNCHANGED << inputs, caller, player_seat_id, opponent_seat_id,
                    opponent_name, player_cards, opponent_cards >>

\* MatchParser._count_revealed_cards (line 76) and the return of line 78
CountRevealedCards ==
    /\ pc = "count"
    /\ LET final == FinalInstances(instance_locations, instance_id_map,
                                   final_player_hand, final_opponent_hand)
       IN  /\ player_cards' = CountFor(instance_locations, final,
                                       split_card_grp_map, player_seat_id)
           /\ opponent_cards' = CountFor(instance_locations, final,
                                         split_card_grp_map, opponent_seat_id)
    /\ pc' = "done"
    /\ UNCHANGED << inputs, tables, caller, idx, in_match, player_seat_id,
                    opponent_seat_id, opponent_name >>

\* the caller calls parse() again on the same parser object
ParseAgain ==
    /\ pc = "done" /\ run = "first"
    /\ run' = "again" /\ first_result' = << Outputs >>
    /\ pc' = "seat"
    /\ player_cards' = EmptyDict /\ opponent_cards' = EmptyDict
    /\ UNCHANGED << inputs, tables, idx, in_match, player_seat_id,
                    opponent_seat_id, opponent_name >>

\* a mutant of __init__: player_deck is one dict shared by all parsers (a
\* class attribute), so the new parser starts with the old one's deck
NewParserSharedDeck ==
    /\ pc = "done" /\ run = "first"
    /\ run' = "fresh" /\ first_result' = << Outputs >>
    /\ pc' = "seat"
    /\ split_card_grp_map' = BuildSplitCardMap(card_db)
    /\ player_seat_id' = Fresh.player_seat_id
    /\ opponent_seat_id' = Fresh.opponent_seat_id
    /\ opponent_name' = Fresh.opponent_name
    /\ instance_locations' = Fresh.instance_locations
    /\ instance_id_map' = Fresh.instance_id_map
    /\ instance_to_grp' = Fresh.instance_to_grp
    /\ final_player_hand' = Fresh.final_player_hand
    /\ final_opponent_hand' = Fresh.final_opponent_hand
    /\ player_deck' = player_deck
    /\ opponent_deck_size' = Fresh.opponent_deck_size
    /\ player_commander' = Fresh.player_commander
    /\ opponent_commander' = Fresh.opponent_commander
    /\ player_cards' = EmptyDict /\ opponent_cards' = EmptyDict
    /\ UNCHANGED << log, log_exists, card_db, idx, in_match >>

\* the caller constructs a new parser on the same file, match and catalog
\* (interactive_ui.py line 110) and calls its parse()
NewParser ==
    /\ pc = "done" /\ run = "first"
    /\ run' = "fresh" /\ first_result' = << Outputs >>
    /\ pc' = "seat"
    /\ split_card_grp_map' = BuildSplitCardMap(card_db)
    /\ player_seat_id' = Fresh.player_seat_id
    /\ opponent_seat_id' = Fresh.opponent_seat_id
    /\ opponent_name' = Fresh.opponent_name
    /\ instance_locations' = Fresh.instance_locations
    /\ instance_id_map' = Fresh.instance_id_map
    /\ instance_to_grp' = Fresh.instance_to_grp
    /\ final_player_hand' = Fresh.final_player_hand
    /\ final_opponent_hand' = Fresh.final_opponent_hand
    /\ player_deck' = Fresh.player_deck
    /\ opponent_deck_size' = Fresh.opponent_deck_size
    /\ player_commander' = Fresh.player_commander
    /\ opponent_commander' = Fresh.opponent_commander
    /\ player_cards' = EmptyDict /\ opponent_cards' = EmptyDict
    /\ UNCHANGED << log, log_exists, card_db, idx, in_match >>

\* one call of parse()
Next == DetectPlayerSeat \/ ExtractOpponentName \/ ScanLine \/ CountRevealedCards

\* parse(), and a second call on the same or on a new parser
NextTwice == Next \/ ParseAgain \/ NewParser

---------------------------------------------------------------------------
(* Catalogs and logs of the checks *)

Card(grp_id, name) == [ key |-> Str(grp_id), name |-> name ]

\* a catalog of one card with a single face
PlainCatalog == << Card(5, <<"Bolt">>) >>

\* instance ids of the logs
InstIds == 1..MaxInst

ObjectLine(objs) == [BlankLine EXCEPT !.objs = objs]
ChangeLine(changes) == [BlankLine EXCEPT !.idChanges = changes]

\* Identity chains: every instance alone on the battlefield (zone 28) as the
\* player's card, one as the opponent's and as a token (card id 9, not in the
\* catalog), all of them in one line, a renaming
\* of any instance to a later one or of the last to the first, and the chain
\* 1 -> 2 -> 3 in one line
ChainLines ==
    { ObjectLine(<< GameObject(i, 5, 28, 1, Public) >>) : i \in InstIds }
    \cup { ObjectLine(<< GameObject(MaxInst, 5, 28, 2, Public) >>),
           ObjectLine(<< GameObject(MaxInst, 9, 28, 1, Public) >>) }
    \cup { ObjectLine([ i \in InstIds |-> GameObject(i, 5, 28, 1, Public) ]) }
    \cup { ChangeLine(<< <<a, b>> >>) :
             <<a, b>> \in { ab \in InstIds \X InstIds :
                              ab[1] < ab[2] \/ ab = <<MaxInst, 1>> } }
    \cup { ChangeLine(<< <<1, 2>>, <<2, 3>> >>) }

InitChain == InitWith(LogsOver(ChainLines), { PlainCatalog })
SpecChain == InitChain /\ [][Next]_vars

\* Visibility: instances 1 and 2 on the battlefield, owned by seat 1, by seat
\* 2 or by nobody, public or private; the opponent's hand (zone 35) holding
\* both; and a message for seat 2 alone, which makes seat 2 the player
ZoneLine(zones) == [BlankLine EXCEPT !.zones = zones]
ConnectLine(msgs) == [BlankLine EXCEPT !.msgs = msgs]
Message(seat_ids) == [ systemSeatIds |-> seat_ids ]

VisibilityLines ==
    { ObjectLine(<< GameObject(i, 5, 28, o, v) >>) :
        <<i, o, v>> \in {1, 2} \X {1, 2, None} \X {Public, Private} }
    \cup { ZoneLine(<< Zone(35, Hand, 2, <<1, 2>>) >>),
           ConnectLine(<< Message(<<2>>) >>) }

InitVisibility == InitWith(LogsOver(VisibilityLines), { PlainCatalog })
SpecVisibility == InitVisibility /\ [][Next]_vars

\* Zones: the player's instance 1 in every zone of the zone table, in zone 36
\* or without zone id; the opponent's instance 2 on the battlefield or in the
\* library; the player's hand holding both; and the renaming 2 -> 1
ZoneIds == {28, 29, 30, 31, 32, 33, 34, 35, 36, 37, None}

ZonesLines ==
    { ObjectLine(<< GameObject(1, 5, z, 1, Public) >>) : z \in ZoneIds }
    \cup { ObjectLine(<< GameObject(2, 5, z, 2, Public) >>) : z \in {28, 30} }
    \cup { ZoneLine(<< Zone(31, Hand, 1, <<1, 2>>) >>),
           ChangeLine(<< <<2, 1>> >>) }

InitZones == InitWith(LogsOver(ZonesLines), { PlainCatalog })
SpecZones == InitZones /\ [][Next]_vars

\* Catalogs: none, one card, and a split card (two printings 12 and 13 of
\* "Fire // Ice", its halves 6 and 7) beside a plain card, in the order of the
\* catalog file (ascending card id)
EmptyCatalog == << >>

SplitCatalog ==
    << Card(5, <<"Bolt">>), Card(6, <<"Fire">>), Card(7, <<"Ice">>),
       Card(12, <<"Fire", Sep2, "Ice">>), Card(13, <<"Fire", Sep2, "Ice">>) >>

\* the player's instances 1 and 2 on the battlefield with a plain card, a half,
\* a second printing or a token (card id 9, in no catalog); objects in the two
\* command zones; the player's command zone and hand holding both instances;
\* and the renaming 1 -> 2
CatalogLines ==
    { ObjectLine(<< GameObject(1, g, 28, 1, Public) >>) : g \in {5, 6, 9} }
    \cup { ObjectLine(<< GameObject(2, g, 28, 1, Public) >>) : g \in {7, 9, 13} }
    \cup { ObjectLine(<< GameObject(1, 6, 32, 1, Public) >>),
           ObjectLine(<< GameObject(2, 9, 34, 2, Public) >>),
           ZoneLine(<< Zone(32, Command, 1, <<1, 2>>) >>),
           ZoneLine(<< Zone(31, Hand, 1, <<1, 2>>) >>),
           ChangeLine(<< <<1, 2>> >>) }

InitCatalog ==
    InitWith(LogsOver(CatalogLines), { EmptyCatalog, PlainCatalog, SplitCatalog })
SpecCatalog == InitCatalog /\ [][Next]_vars

\* Deck facts: a library (zone 30) of seat 2 of every size up to MaxInst, a
\* library of seat 1, a line with the hand and then the library of seat 2, a
\* line with the library of seat 1 and an object of seat 2, deck messages
\* (one on a line without the match identifier), and a message for seat 2
\* alone, which makes seat 1 the opponent
DeckLine(cards) == [BlankLine EXCEPT !.hasDeck = TRUE, !.deckCards = cards]

DeckLines ==
    { ZoneLine(<< Zone(30, Library, 2, [ i \in 1..n |-> i ]) >>) : n \in 0..MaxInst }
    \cup { ZoneLine(<< Zone(30, Library, 1, <<1, 2, 3>>) >>),
           ZoneLine(<< Zone(35, Hand, 2, <<1, 2, 3>>),
                       Zone(30, Library, 2, <<4>>) >>),
           [ ZoneLine(<< Zone(30, Library, 1, <<1, 2>>) >>)
               EXCEPT !.objs = << GameObject(3, 5, 28, 2, Public) >> ],
           ConnectLine(<< Message(<<2>>) >>) }
    \cup { DeckLine(cards) :
             cards \in { << >>, <<5>>, <<6, 5>>, <<101, 101, 205>> } }
    \cup { [ DeckLine(<<5>>) EXCEPT !.hasTarget = FALSE ] }

InitDeck == InitWith(LogsOver(DeckLines), { PlainCatalog })
SpecDeck == InitDeck /\ [][Next]_vars

\* Seats: messages for seat 1, 2 or 3 alone, for both seats, and for both
\* seats followed by single ones; room events listing the two players in
\* either order, nobody, or a first player without seat id; a message and a
\* room event of another match; both as broken JSON and as JSON arrays
ReservedLine(players) ==
    [BlankLine EXCEPT !.hasReserved = TRUE, !.reserved = players,
                      !.hasMatchIdWord = TRUE]
Player(seat, name) == [ systemSeatId |-> seat, playerName |-> name ]

SeatLines ==
    { ConnectLine(<< Message(<<s>>) >>) : s \in {1, 2, 3} }
    \cup { ConnectLine(<< Message(<<1, 2>>) >>),
           ConnectLine(<< Message(<<1, 2>>), Message(<<2>>), Message(<<1>>) >>),
           ReservedLine(<< Player(1, "Ann"), Player(2, "Bob") >>),
           ReservedLine(<< Player(2, "Bob"), Player(1, "Ann") >>),
           ReservedLine(<< >>),
           ReservedLine(<< Player(None, "Ann"), Player(2, "Bob") >>),
           [ ConnectLine(<< Message(<<2>>) >>)
               EXCEPT !.hasTarget = FALSE, !.hasOtherId = TRUE ],
           [ ReservedLine(<< Player(2, "Bob"), Player(1, "Ann") >>)
               EXCEPT !.hasTarget = FALSE, !.hasOtherId = TRUE ],
           [ ConnectLine(<< Message(<<2>>) >>) EXCEPT !.json = "bad" ],
           [ ReservedLine(<< Player(2, "Bob"), Player(1, "Ann") >>)
               EXCEPT !.json = "bad" ],
           [ ConnectLine(<< Message(<<1>>) >>) EXCEPT !.json = "list" ],
           [ ReservedLine(<< Player(1, "Ann"), Player(2, "Bob") >>)
               EXCEPT !.json = "list" ] }

InitSeat == InitWith(LogsOver(SeatLines), { PlainCatalog })
SpecSeat == InitSeat /\ [][Next]_vars

\* Two calls: lines that reach every output (a player's card, the opponent's
\* commander, a hand, a deck message, the opponent's library, a room event, a
\* message for seat 2 alone, a renaming)
TwiceLines ==
    { ObjectLine(<< GameObject(1, 5, 28, 1, Public) >>),
      ObjectLine(<< GameObject(2, 5, 32, 2, Public) >>),
      ZoneLine(<< Zone(31, Hand, 1, <<1>>) >>),
      ZoneLine(<< Zone(30, Library, 2, <<1, 2>>) >>),
      DeckLine(<<5, 5>>),
      ReservedLine(<< Player(1, "Ann"), Player(2, "Bob") >>),
      ConnectLine(<< Message(<<2>>) >>),
      ChangeLine(<< <<2, 1>> >>) }

InitTwice == InitWith(LogsOver(TwiceLines), { PlainCatalog })
SpecTwice == InitTwice /\ [][NextTwice]_vars

\* Match scope: lines of the match (an object, a deck message, the player's
\* hand, a line that names its match with the key matchId), the same object and
\* deck lines without any match identifier, and lines of another match (with
\* the key matchId and another identifier) that carry an object, a deck
\* message or nothing; and a line that has the key matchId and no match
\* identifier at all
NoIdLine(line) == [line EXCEPT !.hasTarget = FALSE]
KeyOnlyLine(line) ==
    [line EXCEPT !.hasTarget = FALSE, !.hasMatchIdWord = TRUE]
OtherMatchLine(line) ==
    [line EXCEPT !.hasTarget = FALSE, !.hasMatchIdWord = TRUE,
                 !.hasOtherId = TRUE]

ScopeLines ==
    { ObjectLine(<< GameObject(1, 5, 28, 1, Public) >>),
      DeckLine(<<5>>),
      ZoneLine(<< Zone(31, Hand, 1, <<1, 2>>) >>),
      [BlankLine EXCEPT !.hasMatchIdWord = TRUE],
      NoIdLine(ObjectLine(<< GameObject(2, 5, 28, 1, Public) >>)),
      NoIdLine(DeckLine(<<5>>)),
      OtherMatchLine(ObjectLine(<< GameObject(1, 5, 29, 1, Public) >>)),
      OtherMatchLine(DeckLine(<<6>>)),
      OtherMatchLine(BlankLine),
      KeyOnlyLine(BlankLine) }

InitScope == InitWith(LogsOver(ScopeLines), { PlainCatalog })
SpecScope == InitScope /\ [][Next]_vars

\* Split names: catalogs of three cards (ids 1, 10, 20, in the order of the
\* catalog file) with every choice of names among two single faces, the full
\* names "W // X" and "W /// X", and the full name "W /// X // Y", of which
\* "W /// X" is a face; one instance on the player's battlefield with any of
\* the three cards, and the player's hand holding it
SplitNames ==
    { <<"W">>, <<"X">>, <<"W", Sep2, "X">>, <<"W", Sep3, "X">>,
      <<"W", Sep3, "X", Sep2, "Y">> }

SplitCatalogs ==
    { << Card(1, a), Card(10, b), Card(20, c) >> :
        a \in SplitNames, b \in SplitNames, c \in SplitNames }

SplitLines ==
    { ObjectLine(<< GameObject(1, g, 28, 1, Public) >>) : g \in {1, 10, 20} }
    \cup { ZoneLine(<< Zone(31, Hand, 1, <<1>>) >>) }

InitSplit == InitWith(LogsOver(SplitLines), SplitCatalogs)
SpecSplit == InitSplit /\ [][Next]_vars

\* Malformed lines: an object in the player's command zone as a JSON object,
\* as broken JSON and inside a JSON array; a broken line with a deck message and
\* a command zone; a command zone; a message for seat 2 alone as broken JSON; a
\* message for seat 1 alone and a room event inside a JSON array
BrokenLine(line) == [line EXCEPT !.json = "bad"]
ArrayLine(line) == [line EXCEPT !.json = "list"]

MalformedLines ==
    { ObjectLine(<< GameObject(1, 5, 32, 1, Public) >>),
      BrokenLine(ObjectLine(<< GameObject(1, 5, 32, 1, Public) >>)),
      ArrayLine(ObjectLine(<< GameObject(1, 5, 32, 1, Public) >>)),
      BrokenLine([ DeckLine(<<5>>)
                     EXCEPT !.zones = << Zone(32, Command, 1, <<1>>) >> ]),
      ZoneLine(<< Zone(32, Command, 1, <<1>>) >>),
      BrokenLine(ConnectLine(<< Message(<<2>>) >>)),
      ArrayLine(ConnectLine(<< Message(<<1>>) >>)),
      ArrayLine(ReservedLine(<< Player(1, "Ann"), Player(2, "Bob") >>)) }

InitMalformed == InitWith(LogsOver(MalformedLines), { PlainCatalog })
SpecMalformed == InitMalformed /\ [][Next]_vars

\* The count: instances 1 and 2 on the battlefield as the player's card, as
\* the opponent's card, as a half of a split card or in the library; the
\* player's hand holding both, the opponent's hand holding instance 2, and the
\* renamings 1 -> 2 and 2 -> 1
CountLines ==
    { ObjectLine(<< GameObject(i, 5, 28, 1, Public) >>) : i \in {1, 2} }
    \cup { ObjectLine(<< GameObject(2, 5, 28, 2, Public) >>),
           ObjectLine(<< GameObject(1, 6, 28, 1, Public) >>),
           ObjectLine(<< GameObject(2, 5, 30, 1, Public) >>),
           ZoneLine(<< Zone(31, Hand, 1, <<1, 2>>) >>),
           ZoneLine(<< Zone(35, Hand, 2, <<2>>) >>),
           ChangeLine(<< <<1, 2>> >>),
           ChangeLine(<< <<2, 1>> >>) }

InitCount == InitWith(LogsOver(CountLines), { PlainCatalog, SplitCatalog })
SpecCount == InitCount /\ [][Next]_vars

\* Location records: instance 1 as the opponent's card, public on the
\* battlefield, private in the hand, public in exile as a half of a split
\* card, public as a token, public on a line of broken JSON; twice in one
\* line; as the player's own private card; private without owner; the
\* opponent's hand holding it; and a message for seat 2 alone
RecordLines ==
    { ObjectLine(<< GameObject(1, 5, 28, 2, Public) >>),
      ObjectLine(<< GameObject(1, 5, 35, 2, Private) >>),
      ObjectLine(<< GameObject(1, 6, 29, 2, Public) >>),
      ObjectLine(<< GameObject(1, 9, 28, 2, Public) >>),
      BrokenLine(ObjectLine(<< GameObject(1, 5, 37, 2, Public) >>)),
      ObjectLine(<< GameObject(1, 5, 28, 2, Public),
                    GameObject(1, 5, 37, 2, Public) >>),
      ObjectLine(<< GameObject(1, 5, 31, 1, Private) >>),
      ObjectLine(<< GameObject(1, 5, 28, None, Private) >>),
      ZoneLine(<< Zone(35, Hand, 2, <<1>>) >>),
      ConnectLine(<< Message(<<2>>) >>) }

InitRecord == InitWith(LogsOver(RecordLines), { SplitCatalog })
SpecRecord == InitRecord /\ [][Next]_vars

\* Commanders: instances 1 (card 5) and 2 (a half of the split card 12) on
\* the battlefield, in the player's command zone 32 and in the opponent's 34;
\* command zone lists of the player in both orders and of the opponent
CommanderLines ==
    { ObjectLine(<< GameObject(1, 5, 28, 1, Public) >>),
      ObjectLine(<< GameObject(2, 6, 28, 1, Public) >>),
      ObjectLine(<< GameObject(1, 5, 32, 1, Public) >>),
      ObjectLine(<< GameObject(2, 6, 32, 1, Public) >>),
      ObjectLine(<< GameObject(1, 5, 34, 2, Public) >>),
      ObjectLine(<< GameObject(2, 6, 34, 2, Public) >>),
      ZoneLine(<< Zone(32, Command, 1, <<1, 2>>) >>),
      ZoneLine(<< Zone(32, Command, 1, <<2, 1>>) >>),
      ZoneLine(<< Zone(34, Command, 2, <<2>>) >>) }

InitCommander == InitWith(LogsOver(CommanderLines), { SplitCatalog })
SpecCommander == InitCommander /\ [][Next]_vars

\* Hands: snapshots of the hand of seat 1 (zone 31) with two cards, one card
\* and no card, of the hand of seat 2 (zone 35) with one card and no card,
\* both hands in one line, an object in the hand, and a message for seat 2
\* alone
HandLines ==
    { ZoneLine(<< Zone(31, Hand, 1, ids) >>) : ids \in { <<1, 2>>, <<2>>, << >> } }
    \cup { ZoneLine(<< Zone(35, Hand, 2, ids) >>) : ids \in { <<3>>, << >> } }
    \cup { ZoneLine(<< Zone(31, Hand, 1, <<1>>), Zone(35, Hand, 2, <<2, 3>>) >>),
           ObjectLine(<< GameObject(1, 5, 31, 1, Public) >>),
           ConnectLine(<< Message(<<2>>) >>) }

InitHand == InitWith(LogsOver(HandLines), { PlainCatalog })
SpecHand == InitHand /\ [][Next]_vars

---------------------------------------------------------------------------
(* What a log shows, for the statements below *)

Max(S) == CHOOSE x \in S : \A y \in S : x >= y

\* the places <<line, object>> of the log at which instance n is observed
ObservationsOf(n) ==
    UNION { { <<k, j>> : j \in { x \in DOMAIN log[k].objs :
                                   log[k].objs[x].instanceId = n } } :
            k \in DOMAIN log }

\* the last observation of instance n in log order
LastObservationOf(n) ==
    LET k == Max({ p[1] : p \in ObservationsOf(n) })
        j == Max({ p[2] : p \in { q \in ObservationsOf(n) : q[1] = k } })
    IN  log[k].objs[j]

\* the instance ids the log observes
ObservedInstances ==
    UNION { { log[k].objs[j].instanceId : j \in DOMAIN log[k].objs } :
            k \in DOMAIN log }

\* the number of copies a returned mapping gives a card
Copies(cards, grp_id) == Get(cards, grp_id, 0)

\* every card id the tracker or the result holds
CardIdsHeld ==
    Range(instance_to_grp)
      \cup { instance_locations[i].grpId : i \in DOMAIN instance_locations }
      \cup ({ player_commander, opponent_commander } \ { None })
      \cup DOMAIN player_cards \cup DOMAIN opponent_cards

---------------------------------------------------------------------------
(* Identity chains *)

\* C1: after parse, for every card the copies returned for both seats together
\* are at most the instances that have a location record with that card and
\* are not an old id of the identity-change map: an old id never contributes,
\* and a chain a -> b -> c is counted at most once, through c's record.
C1_ObsoleteNeverCounted ==
    pc = "done" =>
      \A g \in CardIdsHeld :
        Copies(player_cards, g) + Copies(opponent_cards, g)
          <= Cardinality({ i \in DOMAIN instance_locations :
                             /\ i \notin DOMAIN instance_id_map
                             /\ instance_locations[i].grpId = g })

\* the chain 1 -> 2 -> 3 with a location record under each id, counted once
C1_Witness ==
    /\ pc = "done"
    /\ instance_id_map = (1 :> 2 @@ 2 :> 3)
    /\ {1, 2, 3} \subseteq DOMAIN instance_locations
    /\ player_cards = (5 :> 1)
    /\ opponent_cards = EmptyDict

---------------------------------------------------------------------------
(* The visibility boundary *)

\* an observation that is neither public nor of an object the player owns
IsHidden(o) == o.ownerSeatId # player_seat_id /\ o.visibility # Public

\* the instances some line of the log shows publicly or as the player's own
ShownInstances ==
    { i \in ObservedInstances :
        \E p \in ObservationsOf(i) : ~IsHidden(log[p[1]].objs[p[2]]) }

\* C2: once the seats are resolved, at every point of the scan no location
\* record holds an observation that is neither public nor of the player's own
\* object, an instance that the log observes only in that way has no location
\* record, and the copies parse returns for a card are at most the instances
\* shown with that card.
C2_HiddenNeverTracked ==
    pc \notin {"seat", "crashed"} =>
      /\ \A i \in DOMAIN instance_locations :
            \/ instance_locations[i].visibility = Public
            \/ instance_locations[i].owner = player_seat_id
      /\ \A i \in ObservedInstances \ ShownInstances :
            i \notin DOMAIN instance_locations
      /\ \A g \in CardIdsHeld :
            Copies(player_cards, g) + Copies(opponent_cards, g)
              <= Cardinality({ i \in ShownInstances :
                                 \E p \in ObservationsOf(i) :
                                   /\ ~IsHidden(log[p[1]].objs[p[2]])
                                   /\ log[p[1]].objs[p[2]].grpId = g })

\* the opponent's instance 2, seen only as private, is in the opponent's final
\* hand and still neither tracked nor counted
C2_Witness ==
    /\ pc = "done"
    /\ player_seat_id = 1
    /\ 2 \in ObservedInstances \ ShownInstances
    /\ LastObservationOf(2).ownerSeatId = 2
    /\ final_opponent_hand = <<1, 2>>
    /\ 2 \notin DOMAIN instance_locations
    /\ opponent_cards = EmptyDict

---------------------------------------------------------------------------
(* Zone filtering *)

\* C3: after parse, for every card the copies returned for both seats together
\* are at most the instances whose location record, the last one written, is
\* in one of the zones 28, 29, 31, 33, 35, 37: an instance last recorded in
\* the library, in a command zone, in another zone or without zone id counts
\* for nobody.
C3_OnlyCountedZones ==
    pc = "done" =>
      \A g \in CardIdsHeld :
        Copies(player_cards, g) + Copies(opponent_cards, g)
          <= Cardinality({ i \in DOMAIN instance_locations :
                             /\ instance_locations[i].zone
                                  \in {28, 29, 31, 33, 35, 37}
                             /\ instance_locations[i].grpId = g })

\* instance 1, in the player's final hand and never renamed, was last recorded
\* in the library and is not counted
C3_Witness ==
    /\ pc = "done"
    /\ 1 \in DOMAIN instance_locations
    /\ instance_locations[1].zone = 30
    /\ instance_locations[1].owner = player_seat_id
    /\ final_player_hand = <<1, 2>>
    /\ 1 \notin DOMAIN instance_id_map
    /\ player_cards = EmptyDict

---------------------------------------------------------------------------
(* The catalog and split cards *)

\* C4: at every point of the scan every card id held in instance_to_grp, in
\* instance_locations, in a commander field or as a key of a returned mapping
\* is the id of a catalog entry; with an empty catalog both mappings are empty.
C4_OnlyCatalogCards ==
    /\ \A g \in CardIdsHeld : \E k \in DOMAIN card_db : card_db[k].key = Str(g)
    /\ card_db = << >> => player_cards = EmptyDict /\ opponent_cards = EmptyDict

\* the token 9 was observed as instance 2, which the player's final hand
\* holds, and nothing was recorded for it
C4_Witness ==
    /\ pc = "done"
    /\ card_db = PlainCatalog
    /\ 2 \in ObservedInstances
    /\ LastObservationOf(2).grpId = 9
    /\ final_player_hand = <<1, 2>>
    /\ 2 \notin DOMAIN instance_locations
    /\ 2 \notin DOMAIN instance_to_grp
    /\ player_cards = EmptyDict

\* the catalog positions that hold a full (multi-face) name
FullEntries == { f \in DOMAIN card_db : Len(card_db[f].name) > 1 }

\* the card ids of the single faces of the full card at position f
HalvesOf(f) ==
    { IntOf(card_db[k].key) : k \in { x \in DOMAIN card_db :
        /\ Len(card_db[x].name) = 1
        /\ card_db[x].name[1] \in Range(card_db[f].name) } }

\* the card ids of the printings of the full card at position f
PrintingsOf(f) ==
    { IntOf(card_db[k].key) : k \in { x \in DOMAIN card_db :
        card_db[x].name = card_db[f].name } }

\* the instances the log observes as owned by seat with a card id among ids
InstancesSeenWith(ids, seat) ==
    { i \in ObservedInstances :
        \E p \in ObservationsOf(i) :
          /\ log[p[1]].objs[p[2]].grpId \in ids
          /\ log[p[1]].objs[p[2]].ownerSeatId = seat }

\* C5: after parse no half id of a split card is a key of a returned mapping,
\* and for each seat the copies under the card's canonical id (its first
\* printing) are at most the distinct instances the log observes for that seat
\* with a half or a printing of the card.
C5_SplitCardCollapse ==
    pc = "done" =>
      \A f \in FullEntries :
        /\ HalvesOf(f) \cap (DOMAIN player_cards \cup DOMAIN opponent_cards) = {}
        /\ Copies(player_cards, Min(PrintingsOf(f)))
             <= Cardinality(InstancesSeenWith(HalvesOf(f) \cup PrintingsOf(f),
                                              player_seat_id))
        /\ Copies(opponent_cards, Min(PrintingsOf(f)))
             <= Cardinality(InstancesSeenWith(HalvesOf(f) \cup PrintingsOf(f),
                                              opponent_seat_id))

\* instance 1 seen with half 6 and instance 2 with half 7, both on the
\* player's battlefield and counted: two copies of the full card 12
C5_Witness ==
    /\ pc = "done"
    /\ card_db = SplitCatalog
    /\ {1, 2} \subseteq ObservedInstances
    /\ {1, 2} \subseteq DOMAIN instance_locations
    /\ LastObservationOf(1).grpId = 6
    /\ LastObservationOf(2).grpId = 7
    /\ instance_locations[1].zone = 28 /\ instance_locations[2].zone = 28
    /\ instance_locations[1].owner = 1 /\ instance_locations[2].owner = 1
    /\ final_player_hand = <<1, 2>>
    /\ player_cards = (12 :> 2)

---------------------------------------------------------------------------
(* Deck facts *)

\* the lines the main scan has processed so far: at or after the first line
\* with the match identifier, before the line the scan stands at
ScannedLines ==
    { k \in 1..(idx - 1) : \E j \in 1..k : log[j].hasTarget }

\* the sizes of the opponent's library in the lines processed so far
OpponentLibrarySizes ==
    UNION { { Len(log[k].zones[z].objectInstanceIds) :
                z \in { x \in DOMAIN log[k].zones :
                          /\ log[k].zones[x].type = Library
                          /\ log[k].zones[x].ownerSeatId = opponent_seat_id } } :
            k \in ScannedLines }

\* C6: at every point of the scan opponent_deck_size is the largest size of
\* the opponent's library observed so far, 0 if none has been observed.
C6_MaxOpponentLibrary ==
    pc \in {"scan", "count", "done"} =>
      opponent_deck_size = Max(OpponentLibrarySizes \cup {0})

\* C7: a log of one line that holds the match identifier and nothing but a
\* deck message with the list L leaves player_deck with exactly the ids of L,
\* each mapped to the number of its occurrences in L.
C7_DeckCounts ==
    ( /\ pc = "done"
      /\ Len(log) = 1
      /\ log[1] = DeckLine(log[1].deckCards) )
    => /\ DOMAIN player_deck = Range(log[1].deckCards)
       /\ \A g \in DOMAIN player_deck :
            player_deck[g] = Cardinality({ k \in DOMAIN log[1].deckCards :
                                             log[1].deckCards[k] = g })

\* deckCards = [101, 101, 205] gives {101: 2, 205: 1}
C7_Witness ==
    /\ pc = "done"
    /\ log = << DeckLine(<<101, 101, 205>>) >>
    /\ player_deck = (101 :> 2 @@ 205 :> 1)

---------------------------------------------------------------------------
(* Seat resolution *)

\* the lines of the match that parse and carry a message listing one seat id
SingleSeatLines ==
    { k \in DOMAIN log :
        /\ log[k].hasTarget /\ log[k].json # "bad"
        /\ \E m \in DOMAIN log[k].msgs : Len(log[k].msgs[m].systemSeatIds) = 1 }

\* the seat of the first message of line k that lists one seat id
FirstSingleSeat(k) ==
    log[k].msgs[Min({ m \in DOMAIN log[k].msgs :
                        Len(log[k].msgs[m].systemSeatIds) = 1 })].systemSeatIds[1]

\* the lines of the match that parse and carry a reserved-players list with
\* at least one entry
ReservedPlayersLines ==
    { k \in DOMAIN log :
        /\ log[k].hasTarget /\ log[k].json # "bad"
        /\ log[k].hasReserved /\ log[k].reserved # << >> }

\* C10: when seat resolution has completed, the player seat is the seat of the
\* first single-seat message of the match in log order if there is one,
\* whatever the reserved-players events say; otherwise the seat id of the first
\* entry of the first reserved-players event of the match, if that entry
\* carries one; otherwise 1.
C10_SeatPriority ==
    pc \notin {"seat", "crashed"} =>
      player_seat_id =
        IF SingleSeatLines # {} THEN FirstSingleSeat(Min(SingleSeatLines))
        ELSE IF /\ ReservedPlayersLines # {}
                /\ log[Min(ReservedPlayersLines)].reserved[1].systemSeatId # None
             THEN log[Min(ReservedPlayersLines)].reserved[1].systemSeatId
             ELSE 1

\* a reserved-players event with seat 1 first comes before a message for seat
\* 2 alone: the player is seat 2
C10_Witness ==
    /\ pc = "done"
    /\ Len(log) = 2
    /\ log[1] = ReservedLine(<< Player(1, "Ann"), Player(2, "Bob") >>)
    /\ log[2] = ConnectLine(<< Message(<<1, 2>>), Message(<<2>>), Message(<<1>>) >>)
    /\ player_seat_id = 2

---------------------------------------------------------------------------
(* Repeated parsing *)

---------------------------------------------------------------------------
(* Seat resolution: failures and the pair of seats *)

\* C11: whatever the log holds (lines that are not JSON, JSON whose top level
\* is not an object, messages of unexpected shape), once _detect_player_seat
\* has been left it has returned normally and player_seat_id is a seat id.
C11_SeatResolutionNeverFails ==
    (log_exists /\ pc # "seat") => player_seat_id # None

\* C12: once the seats are resolved, player_seat_id and opponent_seat_id are
\* two distinct values and both are among 1 and 2, whatever seat ids the
\* events of the log carry.
C12_SeatsAreTheFixedPair ==
    pc \notin {"seat", "crashed"} =>
      /\ player_seat_id # opponent_seat_id
      /\ { player_seat_id, opponent_seat_id } \subseteq {1, 2}

---------------------------------------------------------------------------
(* The returned mappings *)

\* C13: every entry of player_cards and of opponent_cards has a count of at
\* least 1, at every point and so in the pair parse returns: no key is present
\* with count 0.
C13_CountsArePositive ==
    /\ \A g \in DOMAIN player_cards : player_cards[g] >= 1
    /\ \A g \in DOMAIN opponent_cards : opponent_cards[g] >= 1

\* the opponent's instance 2 is counted and the player has no counted card:
\* the opponent's card is no key of player_cards
C13_Witness ==
    /\ pc = "done"
    /\ opponent_cards = (5 :> 1)
    /\ player_cards = EmptyDict
    /\ 2 \in DOMAIN instance_locations
    /\ instance_locations[2].owner = opponent_seat_id

---------------------------------------------------------------------------
(* The scope of the main scan *)

\* the first line that contains the match identifier
MatchStart ==
    Min({ k \in DOMAIN log : log[k].hasTarget } \cup { Len(log) + 1 })

\* a line of another match: it has the key matchId and not the identifier
IsOtherMatchLine(k) == log[k].hasMatchIdWord /\ ~log[k].hasTarget

\* the lines from the start of the match up to the first line of another match
MatchLines ==
    { k \in DOMAIN log :
        k >= MatchStart /\ \A i \in MatchStart..k : ~IsOtherMatchLine(i) }

\* the step offers the line the scan stands at to the extractors
Offered ==
    /\ pc = "scan" /\ idx \in DOMAIN log
    /\ idx' = idx + 1 /\ in_match'

C15_OfferedLinesHoldIdentifier ==
    [][ Offered => log[idx].hasTarget ]_vars

\* C15 as amended: the lines offered to the extractors are exactly the lines
\* from the first line that contains the match identifier up to, and not
\* including, the first later line that has the key matchId without the
\* identifier; such a line need not contain the identifier.
C15_OfferedLinesAreMatchLines ==
    [][ (pc = "scan" /\ idx \in DOMAIN log)
          => (Offered <=> idx \in MatchLines) ]_vars

\* a deck message without match identifier, after the start of the match, was
\* read into player_deck
C15_Witness ==
    /\ pc = "done"
    /\ Len(log) = 2
    /\ log[1] = ObjectLine(<< GameObject(1, 5, 28, 1, Public) >>)
    /\ log[2] = NoIdLine(DeckLine(<<5>>))
    /\ player_deck = (5 :> 1)

---------------------------------------------------------------------------
(* The split map and the identity chain as relations *)

\* C16: the split map of the parser is idempotent: for every id x,
\* normalizing the image of x gives the image of x again, so no id the map
\* produces is itself a key mapped to another id.
C16_SplitMapIdempotent ==
    \A x \in DOMAIN split_card_grp_map :
      Normalize(split_card_grp_map, Normalize(split_card_grp_map, x))
        = Normalize(split_card_grp_map, x)

\* the id reached from x by n links of the identity-change map, None if the
\* chain ends before
RECURSIVE Follow(_, _, _)
Follow(id_map, x, n) ==
    IF n = 0 THEN x
    ELSE IF x \notin DOMAIN id_map THEN None
    ELSE Follow(id_map, id_map[x], n - 1)

\* C17: at every point of the scan the identity-change map is acyclic: no id
\* reaches itself by following old -> new links, a link to itself included
\* (that each old id has one successor is what a map is).
C17_IdentityChainAcyclic ==
    \A x \in DOMAIN instance_id_map :
      \A n \in 1..Cardinality(DOMAIN instance_id_map) :
        Follow(instance_id_map, x, n) # x

---------------------------------------------------------------------------
(* Errors *)

\* C18: no line aborts parse of a log that can be opened, and a line of the
\* scan that is not well-formed JSON leaves the tables of the extractors that
\* need JSON (the location records and the commanders) unchanged, is still
\* read by the others (its deck message is counted) and is followed by the
\* next line.
C18_MalformedLinesNeverAbort ==
    [][ /\ log_exists => pc' # "crashed"
        /\ (pc = "scan" /\ idx \in MatchLines /\ log[idx].json = "bad")
             => /\ Offered /\ pc' = "scan"
                /\ instance_locations' = instance_locations
                /\ player_commander' = player_commander
                /\ opponent_commander' = opponent_commander
                /\ \A g \in Range(log[idx].deckCards) :
                     log[idx].hasDeck =>
                       Get(player_deck', g, 0) > Get(player_deck, g, 0) ]_vars

\* C19: when parse has been called a second time on the same parser object
\* with the same log, its player_cards, opponent_cards, player_deck,
\* opponent_deck_size and commanders are those of the first call.
C19_SecondParseSameResult ==
    (pc = "done" /\ run = "again") =>
      /\ player_cards = first_result[1].player_cards
      /\ opponent_cards = first_result[1].opponent_cards
      /\ player_deck = first_result[1].player_deck
      /\ opponent_deck_size = first_result[1].opponent_deck_size
      /\ player_commander = first_result[1].player_commander
      /\ opponent_commander = first_result[1].opponent_commander

\* C20: if the log file cannot be opened, parse ends in the exception of the
\* first open, which reaches the caller: it never gets past seat resolution,
\* returns no mappings, and no tracker table, hand or seat has been modified.
C20_MissingLogReportsError ==
    ~log_exists =>
      /\ pc \in {"seat", "crashed"}
      /\ player_cards = EmptyDict /\ opponent_cards = EmptyDict
      /\ instance_locations = Fresh.instance_locations
      /\ instance_id_map = Fresh.instance_id_map
      /\ instance_to_grp = Fresh.instance_to_grp
      /\ player_deck = Fresh.player_deck
      /\ final_player_hand = Fresh.final_player_hand
      /\ final_opponent_hand = Fresh.final_opponent_hand
      /\ player_seat_id = Fresh.player_seat_id

\* parse of a parser on a missing file has ended in the exception
C20_Witness ==
    /\ ~log_exists
    /\ pc = "crashed"
    /\ player_seat_id = None
    /\ player_cards = EmptyDict /\ opponent_cards = EmptyDict

---------------------------------------------------------------------------
(* The count as a whole *)

\* the instances that count for seat with card id c
CountedInstances(seat, c) ==
    { i \in DOMAIN instance_locations :
        /\ instance_locations[i].grpId = c
        /\ instance_locations[i].owner = seat
        /\ i \notin DOMAIN instance_id_map
        /\ \/ i \in Range(instance_id_map)
           \/ i \in Range(final_player_hand) \cup Range(final_opponent_hand)
        /\ instance_locations[i].zone \in {28, 29, 31, 33, 35, 37}
        /\ c \notin DOMAIN split_card_grp_map }

\* C21: after parse, for each seat and card id the returned count is the
\* number of distinct instances that have a location record with that card and
\* owner, are no old id of the identity-change map, are a new id of it or in
\* the final hand of either seat, and lie in one of the zones 28, 29, 31, 33,
\* 35, 37, the card being no key of the split map; an instance that is neither
\* a new id nor in a final hand counts for nobody.
C21_CountIsDistinctInstances ==
    pc = "done" =>
      \A c \in CardIdsHeld :
        /\ Copies(player_cards, c)
             = Cardinality(CountedInstances(player_seat_id, c))
        /\ Copies(opponent_cards, c)
             = Cardinality(CountedInstances(opponent_seat_id, c))

\* two instances of card 5 on the player's battlefield, both in the player's
\* final hand: two copies
C21_Witness ==
    /\ pc = "done"
    /\ card_db = PlainCatalog
    /\ {1, 2} \subseteq DOMAIN instance_locations
    /\ instance_locations[1].owner = 1 /\ instance_locations[2].owner = 1
    /\ instance_locations[1].zone = 28 /\ instance_locations[2].zone = 28
    /\ final_player_hand = <<1, 2>>
    /\ instance_id_map = EmptyDict
    /\ player_cards = (5 :> 2)

---------------------------------------------------------------------------
(* Location records *)

\* the observations <<line, object>> of instance i that the tracker has read
\* so far (in a line of the match that parses) and that passed the catalog
\* and the visibility test
PassingObservations(i) ==
    { p \in ObservationsOf(i) :
        /\ p[1] \in MatchLines /\ p[1] < idx
        /\ log[p[1]].json # "bad"
        /\ InCatalog(card_db, log[p[1]].objs[p[2]].grpId)
        /\ ~IsHidden(log[p[1]].objs[p[2]]) }

\* the latest of them in log order
LastPassingObservation(i) ==
    LET k == Max({ p[1] : p \in PassingObservations(i) })
        j == Max({ p[2] : p \in { q \in PassingObservations(i) : q[1] = k } })
    IN  log[k].objs[j]

\* C22: at every point of the scan an instance has a location record exactly
\* if some observation of it read so far passed the catalog and the
\* visibility test, and the record (one per instance, the table being a dict)
\* holds the zone, owner, visibility and normalized card id of the latest such
\* observation.
C22_LastWriteWins ==
    pc \in {"scan", "count", "done"} =>
      \A i \in InstIds :
        IF PassingObservations(i) = {}
        THEN i \notin DOMAIN instance_locations
        ELSE /\ i \in DOMAIN instance_locations
             /\ instance_locations[i] =
                  [ grpId |-> Normalize(split_card_grp_map,
                                        LastPassingObservation(i).grpId),
                    zone |-> LastPassingObservation(i).zoneId,
                    owner |-> LastPassingObservation(i).ownerSeatId,
                    visibility |-> LastPassingObservation(i).visibility ]

\* instance 1 was recorded on the battlefield and then in exile as a half of
\* the split card 12: the record is the later one, under the full card's id
C22_Witness ==
    /\ pc = "done"
    /\ Len(log) = 2
    /\ log[1] = ObjectLine(<< GameObject(1, 5, 28, 2, Public) >>)
    /\ log[2] = ObjectLine(<< GameObject(1, 6, 29, 2, Public) >>)
    /\ instance_locations[1] =
         [ grpId |-> 12, zone |-> 29, owner |-> 2, visibility |-> Public ]

\* the objects of the line the scan stands at that observe instance i
ObservedHere(i) ==
    { j \in DOMAIN log[idx].objs : log[idx].objs[j].instanceId = i }

\* C30: a line whose observations of an instance all fail the visibility test
\* (not public and not owned by the player) leaves the instance's location
\* record as it was, absent or present; a line with no other observations
\* leaves instance_locations unchanged.
C30_HiddenObservationChangesNothing ==
    [][ Offered =>
          /\ \A i \in InstIds :
               ( /\ ObservedHere(i) # {}
                 /\ \A j \in ObservedHere(i) : IsHidden(log[idx].objs[j]) )
               => /\ (i \in DOMAIN instance_locations')
                       = (i \in DOMAIN instance_locations)
                  /\ i \in DOMAIN instance_locations
                       => instance_locations'[i] = instance_locations[i]
          /\ (\A j \in DOMAIN log[idx].objs : IsHidden(log[idx].objs[j]))
               => instance_locations' = instance_locations ]_vars

\* the opponent's instance 1 was public on the battlefield, then private in
\* the hand: the record is still the battlefield's and the card is counted
C30_Witness ==
    /\ pc = "done"
    /\ log = << ObjectLine(<< GameObject(1, 5, 28, 2, Public) >>),
                ObjectLine(<< GameObject(1, 5, 35, 2, Private) >>),
                ZoneLine(<< Zone(35, Hand, 2, <<1>>) >> ) >>
    /\ instance_locations[1].zone = 28
    /\ instance_locations[1].visibility = Public
    /\ opponent_cards = (5 :> 1)

---------------------------------------------------------------------------
(* Commanders *)

\* C23: once player_commander holds a card id no step changes it, and the
\* same for opponent_commander, whichever of the two detection paths (command
\* zone lists, objects in zones 32 and 34) wrote it or finds another card.
C23_CommanderFirstWriteWins ==
    [][ /\ player_commander # None => player_commander' = player_commander
        /\ opponent_commander # None
             => opponent_commander' = opponent_commander ]_vars

\* the command zone list named instance 1 (card 5) first; the later object of
\* card 12 in zone 32 did not replace it
C23_Witness ==
    /\ pc = "done"
    /\ log = << ObjectLine(<< GameObject(1, 5, 28, 1, Public) >>),
                ZoneLine(<< Zone(32, Command, 1, <<1, 2>>) >>),
                ObjectLine(<< GameObject(2, 6, 32, 1, Public) >>) >>
    /\ player_commander = 5

---------------------------------------------------------------------------
(* Hands *)

\* the hand snapshots <<line, zone>> of seat that the scan has read
HandSnapshots(seat) ==
    UNION { { <<k, z>> : z \in { x \in DOMAIN log[k].zones :
                                   /\ log[k].zones[x].type = Hand
                                   /\ log[k].zones[x].ownerSeatId = seat } } :
            k \in { x \in MatchLines : x < idx } }

\* the object ids of the last of them in log order, empty if there is none
LastHandSnapshot(seat) ==
    IF HandSnapshots(seat) = {} THEN << >>
    ELSE LET k == Max({ p[1] : p \in HandSnapshots(seat) })
             z == Max({ p[2] : p \in { q \in HandSnapshots(seat) : q[1] = k } })
         IN  log[k].zones[z].objectInstanceIds

\* C24: after the scan the final hand of each seat is the object id list of
\* the last hand snapshot read for that seat, also when that snapshot is an
\* empty hand.
C24_FinalHandIsLastSnapshot ==
    pc \in {"count", "done"} =>
      /\ final_player_hand = LastHandSnapshot(player_seat_id)
      /\ final_opponent_hand = LastHandSnapshot(opponent_seat_id)

---------------------------------------------------------------------------
(* The opponent's deck size and the player's deck *)

\* the sizes of the opponent's library zones in the line the scan stands at
OpponentLibrarySizesHere ==
    { Len(log[idx].zones[z].objectInstanceIds) :
        z \in { x \in DOMAIN log[idx].zones :
                  /\ log[idx].zones[x].type = Library
                  /\ log[idx].zones[x].ownerSeatId = opponent_seat_id } }

\* C25: a step sets opponent_deck_size only to the number of object ids of a
\* library zone of the opponent in the line it reads, never to the size of a
\* list of another zone or of the player's library.
C25_DeckSizeFromOpponentLibrary ==
    [][ opponent_deck_size' # opponent_deck_size
          => /\ pc = "scan" /\ idx \in DOMAIN log
             /\ opponent_deck_size' \in OpponentLibrarySizesHere ]_vars

\* the deck message lines the scan has read
DeckMessageLines ==
    { k \in MatchLines : k < idx /\ log[k].hasDeck }

\* the number of occurrences of card id g in list L
Occurrences(L, g) == Cardinality({ k \in DOMAIN L : L[k] = g })

\* C28: after parse, if the scan has read more than one deck message and all
\* of them carry the same list L, player_deck holds exactly the ids of L, each
\* with the number of its occurrences in L.
C28_RepeatedDeckMessage ==
    ( /\ pc = "done"
      /\ Cardinality(DeckMessageLines) > 1
      /\ \A j, k \in DeckMessageLines : log[j].deckCards = log[k].deckCards )
    => \A k \in DeckMessageLines :
         /\ DOMAIN player_deck = Range(log[k].deckCards)
         /\ \A g \in DOMAIN player_deck :
              player_deck[g] = Occurrences(log[k].deckCards, g)

---------------------------------------------------------------------------
(* The order of seat resolution and tracking *)

\* C26: a step changes a tracker table (identity, location, hand, deck, deck
\* size, commander) only in the scan and with both seats resolved, and from
\* the start of the scan until parse returns no step changes player_seat_id
\* or opponent_seat_id.
C26_SeatsResolvedBeforeTracking ==
    [][ /\ tables' # tables
             => /\ pc = "scan"
                /\ player_seat_id # None /\ opponent_seat_id # None
        /\ pc \in {"scan", "count"}
             => /\ player_seat_id' = player_seat_id
                /\ opponent_seat_id' = opponent_seat_id ]_vars

\* the private object of seat 2 in the first line was recorded as the
\* player's own: the message for seat 2 alone in the second line had been
\* read before the scan began
C26_Witness ==
    /\ pc = "done"
    /\ Len(log) = 2
    /\ log[1] = ObjectLine(<< GameObject(1, 5, 28, 2, Private) >>)
    /\ log[2] = ConnectLine(<< Message(<<2>>) >>)
    /\ player_seat_id = 2 /\ opponent_seat_id = 1
    /\ 1 \in DOMAIN instance_locations

---------------------------------------------------------------------------
(* The end of the scan *)

\* C27: the scan ends before the end of the file only at a line that contains
\* the identifier of another match; a line without one never ends it.
C27_EarlyEndOnlyAtOtherMatch ==
    [][ (pc = "scan" /\ idx \in DOMAIN log /\ pc' # "scan")
          => log[idx].hasOtherId ]_vars

---------------------------------------------------------------------------
(* The opponent's name *)

\* the room events of the match that parse and list an entry for seat
ReservedLinesWith(seat) ==
    { k \in DOMAIN log :
        /\ log[k].hasTarget /\ log[k].hasReserved /\ log[k].json = "obj"
        /\ \E e \in DOMAIN log[k].reserved :
              log[k].reserved[e].systemSeatId = seat }

\* the display name of the first entry for seat in line k
FirstNameOf(k, seat) ==
    LET e == Min({ x \in DOMAIN log[k].reserved :
                     log[k].reserved[x].systemSeatId = seat })
    IN  IF log[k].reserved[e].playerName = NoName THEN "Unknown"
        ELSE log[k].reserved[e].playerName

\* C29: once the name pre-pass has completed, opponent_name is the display
\* name of the first entry whose seat id is the resolved opponent seat in the
\* first room event of the match that lists one, it is unset when no room
\* event lists one, and it is not the name of an entry of the player's seat.
C29_OpponentNameOfOpponentSeat ==
    pc \in {"scan", "count", "done"} =>
      /\ opponent_name =
           IF ReservedLinesWith(opponent_seat_id) = {} THEN NoName
           ELSE FirstNameOf(Min(ReservedLinesWith(opponent_seat_id)),
                            opponent_seat_id)
      /\ \A k \in ReservedLinesWith(player_seat_id) :
           opponent_name # FirstNameOf(k, player_seat_id)

\* the room event lists Bob on seat 2 before Ann on seat 1, and the player is
\* seat 2: the opponent is Ann, the second entry
C29_Witness ==
    /\ pc = "done"
    /\ Len(log) = 2
    /\ log[1] = ReservedLine(<< Player(2, "Bob"), Player(1, "Ann") >>)
    /\ log[2] = ConnectLine(<< Message(<<2>>) >>)
    /\ opponent_seat_id = 1
    /\ opponent_name = "Ann"

====
